---------------------------- MODULE Spec2Model ----------------------------
(***************************************************************************)
(* A model of asr_evaluation.py: the corpus loop of main(), the opcode     *)
(* classifier (get_error_count, get_match_count), the confusion            *)
(* accumulator (track_confusions), the diff renderer (print_diff) and the  *)
(* final report.  The aligner (editdistance.SequenceMatcher) is imported   *)
(* by the script and is modelled from its description: Wagner-Fischer      *)
(* table, backtrack preferring diagonal over vertical over horizontal,     *)
(* run-length compression of the steps into opcodes.                       *)
(*                                                                         *)
(* A token is a sequence of one-character strings, a line is a sequence of *)
(* tokens (what str.split() returns), a rendered line is a sequence of     *)
(* characters.  A rational a/b is the pair <<a, b>>, never reduced.        *)
(***************************************************************************)
EXTENDS Integers, Sequences, FiniteSets, TLC

VARIABLES
    files_have_ids, confusions, print_instances,   \* command line options
    ref_file_len, hyp_file_len,                    \* lines in args.ref / args.hyp
    ref_pos, hyp_pos,                              \* lines consumed from each file
    pc, err, fail_line,                            \* position, exception, raising line
    counter, ref_token_count, error_count, match_count,
    lengths, error_rates, wer_bins,
    insertion_table, deletion_table, substitution_table,
    ref_line, hyp_line, ref, hyp, id,              \* locals of main's loop body
    sm, opcodes, errors, matches,
    diff_out,                                      \* <<REF line, HYP line>> last printed
    report,                                        \* what the final report printed
    hist                                           \* history: the pairs given to the aligner

vars == << files_have_ids, confusions, print_instances, ref_file_len,
           hyp_file_len, ref_pos, hyp_pos, pc, err, fail_line, counter,
           ref_token_count, error_count, match_count, lengths, error_rates,
           wer_bins, insertion_table, deletion_table, substitution_table,
           ref_line, hyp_line, ref, hyp, id, sm, opcodes, errors, matches,
           diff_out, report, hist >>

----------------------------------------------------------------------------
(* Bounds of the model and constants of the program. *)

\* Longest token sequence of the per-pair specifications.
MaxLen == 3

\* Longest token sequence of the renderer's specification.
MaxDiffLen == 2

\* Most lines in a transcript file.
MaxLines == 2

\* wer_bins = [[] for x in xrange(20)]
NumBins == 20

\* The percentage factor of the WER / WRR lines.
Hundred == 100

Vocab == { <<"a">>, <<"B", "b">>, <<"A">> }

RECURSIVE SeqsUpTo(_, _)
SeqsUpTo(S, n) ==
    IF n = 0 THEN { <<>> }
    ELSE LET shorter == SeqsUpTo(S, n - 1)
         IN  shorter \cup { Append(s, x) : s \in shorter, x \in S }

Min2(x, y) == IF x <= y THEN x ELSE y

Max2(x, y) == IF x >= y THEN x ELSE y

Min3(x, y, z) == Min2(x, Min2(y, z))

\* Python's seq[i1:i2] for 0 <= i1 <= i2 <= len(seq).
Slice(s, i1, i2) == [k \in 1..(i2 - i1) |-> s[i1 + k]]

RECURSIVE SumSeq(_)
SumSeq(s) == IF s = <<>> THEN 0 ELSE s[1] + SumSeq(Tail(s))

----------------------------------------------------------------------------
(* editdistance.SequenceMatcher *)

\* Row i of the distance table from row i-1; acc holds D[i][0..j-1].
RECURSIVE RowAcc(_, _, _, _)
RowAcc(prev, tok, b, acc) ==
    IF Len(acc) = Len(b) + 1 THEN acc
    ELSE LET j   == Len(acc)
             sub == IF tok = b[j] THEN 0 ELSE 1
         IN  RowAcc(prev, tok, b,
                    Append(acc, Min3(prev[j] + sub, prev[j + 1] + 1, acc[j] + 1)))

\* The rows D[0..i] of the table; D[i][j] is Table[i + 1][j + 1].
RECURSIVE TableAcc(_, _, _)
TableAcc(a, b, acc) ==
    IF Len(acc) = Len(a) + 1 THEN acc
    ELSE LET i == Len(acc)
         IN  TableAcc(a, b, Append(acc, RowAcc(acc[i], a[i], b, << i >>)))

DistanceTable(a, b) == TableAcc(a, b, << [j \in 1..(Len(b) + 1) |-> j - 1] >>)

\* The steps from (0,0) to (i,j), found backwards from (i,j): diagonal
\* before vertical (delete) before horizontal (insert).
RECURSIVE Backtrack(_, _, _, _, _)
Backtrack(T, a, b, i, j) ==
    IF i = 0 /\ j = 0 THEN <<>>
    ELSE IF i > 0 /\ j > 0
            /\ T[i][j] + (IF a[i] = b[j] THEN 0 ELSE 1) = T[i + 1][j + 1]
         THEN Append(Backtrack(T, a, b, i - 1, j - 1),
                     IF a[i] = b[j] THEN "equal" ELSE "replace")
    ELSE IF i > 0 /\ T[i][j + 1] + 1 = T[i + 1][j + 1]
         THEN Append(Backtrack(T, a, b, i - 1, j), "delete")
    ELSE Append(Backtrack(T, a, b, i, j - 1), "insert")

AlignSteps(a, b) == Backtrack(DistanceTable(a, b), a, b, Len(a), Len(b))

StepRef(tag) == IF tag = "insert" THEN 0 ELSE 1

StepHyp(tag) == IF tag = "delete" THEN 0 ELSE 1

\* Run-length compression: a step of the last opcode's kind extends it.
RECURSIVE Compress(_, _)
Compress(steps, acc) ==
    IF steps = <<>> THEN acc
    ELSE LET tag == Head(steps)
             n   == Len(acc)
         IN  IF n > 0 /\ acc[n].tag = tag
             THEN Compress(Tail(steps),
                           [acc EXCEPT ![n].i2 = @ + StepRef(tag),
                                       ![n].j2 = @ + StepHyp(tag)])
             ELSE LET i == IF n = 0 THEN 0 ELSE acc[n].i2
                      j == IF n = 0 THEN 0 ELSE acc[n].j2
                  IN  Compress(Tail(steps),
                               Append(acc, [tag |-> tag,
                                            i1 |-> i, i2 |-> i + StepRef(tag),
                                            j1 |-> j, j2 |-> j + StepHyp(tag)]))

\* SequenceMatcher with a fault: the two sequences passed in the wrong order.
SequenceMatcherSwapped(a, b) == [a |-> b, b |-> a]

\* sm = editdistance.SequenceMatcher(a=ref, b=hyp)
SequenceMatcher(a, b) == [a |-> a, b |-> b]

get_opcodes(m) == Compress(AlignSteps(m.a, m.b), <<>>)

\* sm.matches(): the number of matching steps of the alignment.
sm_matches(m) ==
    LET steps == AlignSteps(m.a, m.b)
    IN  Cardinality({ k \in 1..Len(steps) : steps[k] = "equal" })

\* sm.get_matching_blocks(): <<i, j, n>> for each matching region.
get_matching_blocks(m) ==
    LET ops == get_opcodes(m)
        eq  == SelectSeq(ops, LAMBDA o : o.tag = "equal")
    IN  [k \in 1..Len(eq) |-> << eq[k].i1, eq[k].j1, eq[k].i2 - eq[k].i1 >>]

----------------------------------------------------------------------------
(* The opcode classifier *)

error_codes == { "replace", "delete", "insert" }

\* get_error_count with a fault: an error run counted by its reference span.
get_error_count_ref_span(ops) ==
    LET errs == SelectSeq(ops, LAMBDA o : o.tag \in error_codes)
    IN  SumSeq([k \in 1..Len(errs) |-> errs[k].i2 - errs[k].i1])

\* get_error_count with a fault: an error run counted by both its spans.
get_error_count_both_spans(ops) ==
    LET errs == SelectSeq(ops, LAMBDA o : o.tag \in error_codes)
    IN  SumSeq([k \in 1..Len(errs) |->
                   (errs[k].i2 - errs[k].i1) + (errs[k].j2 - errs[k].j1)])

get_error_count(ops) ==
    LET errs == SelectSeq(ops, LAMBDA o : o.tag \in error_codes)
        error_lengths == [k \in 1..Len(errs) |->
                             Max2(errs[k].i2 - errs[k].i1, errs[k].j2 - errs[k].j1)]
    IN  SumSeq(error_lengths)

\* assert(matches1 == matches2): the two counts of get_match_count agree.
match_counts_agree(m) ==
    LET blocks == get_matching_blocks(m)
    IN  sm_matches(m) = SumSeq([k \in 1..Len(blocks) |-> blocks[k][3]])

\* matches = matches1, where matches1 = sm.matches().
get_match_count(m) == sm_matches(m)

----------------------------------------------------------------------------
(* The confusion accumulator *)

EmptyTable == [k \in {} |-> 0]

\* table[key] += 1 on a defaultdict(int).
Increment(table, key) ==
    IF key \in DOMAIN table THEN [table EXCEPT ![key] = @ + 1]
    ELSE [k \in (DOMAIN table) \cup {key} |-> IF k = key THEN 1 ELSE table[k]]

RECURSIVE IncrementAll(_, _)
IncrementAll(table, keys) ==
    IF keys = <<>> THEN table
    ELSE IncrementAll(Increment(table, Head(keys)), Tail(keys))

\* ReplacePairs with a fault: positional pairing of the two spans.
ReplacePairsPositional(s1, s2) ==
    [k \in 1..Min2(Len(s1), Len(s2)) |-> << s1[k], s2[k] >>]

\* for w1 in seq1[i1:i2]: for w2 in seq2[j1:j2]: key = (w1, w2)
ReplacePairs(s1, s2) ==
    [k \in 1..(Len(s1) * Len(s2)) |->
        << s1[((k - 1) \div Len(s2)) + 1], s2[((k - 1) % Len(s2)) + 1] >>]

\* The three tables after the loop of track_confusions over ops.
RECURSIVE track_confusions(_, _, _, _)
track_confusions(ops, seq1, seq2, tables) ==
    IF ops = <<>> THEN tables
    ELSE LET o  == Head(ops)
             s1 == Slice(seq1, o.i1, o.i2)
             s2 == Slice(seq2, o.j1, o.j2)
             t  == CASE o.tag = "insert" ->
                         [tables EXCEPT !.ins = IncrementAll(@, s2)]
                    [] o.tag = "delete" ->
                         [tables EXCEPT !.del = IncrementAll(@, s1)]
                    [] o.tag = "replace" ->
                         [tables EXCEPT !.sub = IncrementAll(@, ReplacePairs(s1, s2))]
                    [] OTHER -> tables
         IN  track_confusions(Tail(ops), seq1, seq2, t)

----------------------------------------------------------------------------
(* The diff renderer *)

upper_char(c) == CASE c = "a" -> "A" [] c = "b" -> "B" [] c = "c" -> "C" [] OTHER -> c

lower_char(c) == CASE c = "A" -> "a" [] c = "B" -> "b" [] c = "C" -> "c" [] OTHER -> c

str_upper(w) == [k \in 1..Len(w) |-> upper_char(w[k])]

str_lower(w) == [k \in 1..Len(w) |-> lower_char(w[k])]

\* c * n for a one-character string c.
Repeat(c, n) == [k \in 1..n |-> c]

\* s2.append(False): the marker of a slot with no token.
False == << "False" >>

\* s with n markers appended (n <= 0 appends none).
PadFalse(s, n) == s \o [k \in 1..Max2(n, 0) |-> False]

\* One slot of a replace run after the loop over range(0, len(s1)).
ReplaceSlot1(w1, w2) ==
    IF w1 = False THEN Repeat("*", Len(w2))
    ELSE IF w2 # False /\ Len(w1) < Len(w2) THEN w1 \o Repeat(" ", Len(w2) - Len(w1))
    ELSE w1

\* ReplaceSlot2 with a fault: the shorter hypothesis token is not padded.
ReplaceSlot2Unpadded(w1, w2) ==
    IF w2 = False THEN Repeat("*", Len(w1)) ELSE w2

ReplaceSlot2(w1, w2) ==
    IF w2 = False THEN Repeat("*", Len(w1))
    ELSE IF w1 # False /\ Len(w1) > Len(w2) THEN w2 \o Repeat(" ", Len(w1) - Len(w2))
    ELSE w2

\* ' '.join(tokens)
RECURSIVE Join(_)
Join(tokens) ==
    IF tokens = <<>> THEN <<>>
    ELSE IF Len(tokens) = 1 THEN tokens[1]
    ELSE tokens[1] \o << " " >> \o Join(Tail(tokens))

\* Python's line.split(' '): the pieces between single spaces, empty ones kept.
RECURSIVE SplitAcc(_, _, _)
SplitAcc(line, cur, acc) ==
    IF line = <<>> THEN Append(acc, cur)
    ELSE IF Head(line) = " " THEN SplitAcc(Tail(line), <<>>, Append(acc, cur))
    ELSE SplitAcc(Tail(line), Append(cur, Head(line)), acc)

SplitSpace(line) == SplitAcc(line, <<>>, <<>>)

\* ref_tokens and hyp_tokens after the loop of print_diff over ops.
RECURSIVE DiffTokens(_, _, _, _)
DiffTokens(ops, seq1, seq2, acc) ==
    IF ops = <<>> THEN acc
    ELSE LET o  == Head(ops)
             r1 == Slice(seq1, o.i1, o.i2)
             r2 == Slice(seq2, o.j1, o.j2)
             s1 == PadFalse([k \in 1..Len(r1) |-> str_upper(r1[k])], Len(r2) - Len(r1))
             s2 == PadFalse([k \in 1..Len(r2) |-> str_upper(r2[k])], Len(r1) - Len(r2))
             t  == CASE o.tag = "equal" ->
                         [ref_tokens |-> acc.ref_tokens
                                           \o [k \in 1..Len(r1) |-> str_lower(r1[k])],
                          hyp_tokens |-> acc.hyp_tokens
                                           \o [k \in 1..Len(r2) |-> str_lower(r2[k])]]
                    [] o.tag = "delete" ->
                         [ref_tokens |-> acc.ref_tokens
                                           \o [k \in 1..Len(r1) |-> str_upper(r1[k])],
                          hyp_tokens |-> acc.hyp_tokens
                                           \o [k \in 1..Len(r1) |-> Repeat("*", Len(r1[k]))]]
                    [] o.tag = "insert" ->
                         [ref_tokens |-> acc.ref_tokens
                                           \o [k \in 1..Len(r2) |-> Repeat("*", Len(r2[k]))],
                          hyp_tokens |-> acc.hyp_tokens
                                           \o [k \in 1..Len(r2) |-> str_upper(r2[k])]]
                    [] o.tag = "replace" ->
                         [ref_tokens |-> acc.ref_tokens
                                           \o [k \in 1..Len(s1) |-> ReplaceSlot1(s1[k], s2[k])],
                          hyp_tokens |-> acc.hyp_tokens
                                           \o [k \in 1..Len(s2) |-> ReplaceSlot2(s1[k], s2[k])]]
                    [] OTHER -> acc
         IN  DiffTokens(Tail(ops), seq1, seq2, t)

\* The slot lists and the two joined lines print_diff prints after "REF: " / "HYP: ".
print_diff(ops, seq1, seq2) ==
    LET t == DiffTokens(ops, seq1, seq2, [ref_tokens |-> <<>>, hyp_tokens |-> <<>>])
    IN  [ref_tokens |-> t.ref_tokens, hyp_tokens |-> t.hyp_tokens,
         ref_line |-> Join(t.ref_tokens), hyp_line |-> Join(t.hyp_tokens)]

NoDiff == [ref_tokens |-> <<>>, hyp_tokens |-> <<>>, ref_line |-> <<>>, hyp_line |-> <<>>]

----------------------------------------------------------------------------
(* The corpus loop of main() *)

ta == << "a" >>

tBb == << "B", "b" >>

tA == << "A" >>

tc == << "c" >>

\* A reference sentence with one token per bin of wer_bins.
LongLine == [k \in 1..NumBins |-> ta]

\* The lines a reference transcript is read from, after split().
RefLines == { <<>>, << ta >>, << ta, tBb >>, LongLine }

\* The lines a hypothesis transcript is read from, after split().
HypLines == { <<>>, << ta >>, << tA, tc >>, << tc, ta, tBb >> }

None == << "None" >>

\* seq[-1] and seq[:-1] of a non-empty list.
Last(s) == s[Len(s)]

Front(s) == [k \in 1..(Len(s) - 1) |-> s[k]]

\* The rational x / y of "from __future__ import division" and of x * 1.0 / y.
Rate(x, y) == << x, y >>

NaN == << 0, 0 >>

RatAdd(p, q) == << p[1] * q[2] + q[1] * p[2], p[2] * q[2] >>

RECURSIVE RatSum(_)
RatSum(s) == IF s = <<>> THEN << 0, 1 >> ELSE RatAdd(s[1], RatSum(Tail(s)))

\* float(sum(seq))/len(seq) if len(seq) > 0 else float('nan')
mean(s) == IF Len(s) > 0 THEN << RatSum(s)[1], RatSum(s)[2] * Len(s) >> ELSE NaN

\* ref and hyp as the aligner gets them.
StripRef(ids, rl) == IF ids /\ rl # <<>> THEN Front(rl) ELSE rl

StripHyp(ids, hl) == IF ids /\ hl # <<>> THEN Front(hl) ELSE hl

\* wer_bins[n] exists.
BinExists(n) == n < NumBins

\* FailLine with a fault: the identifiers are split off and never compared.
FailLineUnasserted(ids, pi, rl, hl) ==
    LET r == StripRef(ids, rl)
        h == StripHyp(ids, hl)
    IN  IF ids /\ rl = <<>> THEN 68
        ELSE IF ids /\ hl = <<>> THEN 69
        ELSE IF ~match_counts_agree(SequenceMatcher(r, h)) THEN 154
        ELSE IF pi /\ Len(r) = 0 THEN 95
        ELSE IF Len(r) = 0 THEN 100
        ELSE IF ~BinExists(Len(r)) THEN 101
        ELSE 0

\* FailLine with a fault: the rate computed as errors / max(1, len(ref)).
FailLineGuarded(ids, pi, rl, hl) ==
    LET r == StripRef(ids, rl)
        h == StripHyp(ids, hl)
    IN  IF ids /\ rl = <<>> THEN 68
        ELSE IF ids /\ hl = <<>> THEN 69
        ELSE IF ids /\ Last(rl) # Last(hl) THEN 70
        ELSE IF ~match_counts_agree(SequenceMatcher(r, h)) THEN 154
        ELSE IF ~BinExists(Len(r)) THEN 101
        ELSE 0

\* The line of one loop iteration that raises, 0 when the iteration completes:
\* 68, 69 IndexError on [-1] of an empty list, 70 the identifier assertion,
\* 154 the assertion of get_match_count, 95 and 100 the divisions by
\* len(ref), 101 the index into wer_bins.
FailLine(ids, pi, rl, hl) ==
    LET r == StripRef(ids, rl)
        h == StripHyp(ids, hl)
    IN  IF ids /\ rl = <<>> THEN 68
        ELSE IF ids /\ hl = <<>> THEN 69
        ELSE IF ids /\ Last(rl) # Last(hl) THEN 70
        ELSE IF ~match_counts_agree(SequenceMatcher(r, h)) THEN 154
        ELSE IF pi /\ Len(r) = 0 THEN 95
        ELSE IF Len(r) = 0 THEN 100
        ELSE IF ~BinExists(Len(r)) THEN 101
        ELSE 0

ErrorOf(line) ==
    CASE line \in {68, 69, 101} -> "IndexError"
      [] line \in {70, 154}     -> "AssertionError"
      [] line \in {95, 100, 106} -> "ZeroDivisionError"
      [] OTHER                  -> "none"

\* AddTo with a fault: the total overwritten by the pair's count.
AddToOverwrites(total, x) == x

\* total += x
AddTo(total, x) == total + x

\* wer_bins[n].append(rate); the list of bin n is wer_bins[n + 1] here.
BinAppend(bins, n, rate) == [bins EXCEPT ![n + 1] = Append(@, rate)]

TypeOK ==
    /\ files_have_ids \in BOOLEAN /\ confusions \in BOOLEAN
    /\ print_instances \in BOOLEAN
    /\ pc \in {"loop", "report", "done", "aborted", "pair", "aligned", "opcodes", "rendered"}
    /\ Len(wer_bins) = NumBins

Defaults ==
    /\ ref_pos = 0 /\ hyp_pos = 0
    /\ err = "none" /\ fail_line = 0
    /\ counter = 1
    /\ ref_token_count = 0 /\ error_count = 0 /\ match_count = 0
    /\ lengths = <<>> /\ error_rates = <<>>
    /\ wer_bins = [x \in 1..NumBins |-> <<>>]
    /\ insertion_table = EmptyTable
    /\ deletion_table = EmptyTable
    /\ substitution_table = EmptyTable
    /\ ref_line = <<>> /\ hyp_line = <<>>
    /\ id = None
    /\ sm = SequenceMatcher(<<>>, <<>>)
    /\ errors = 0 /\ matches = 0
    /\ diff_out = NoDiff
    /\ report = <<>>
    /\ hist = <<>>

Init ==
    /\ files_have_ids \in BOOLEAN
    /\ confusions \in BOOLEAN
    /\ print_instances \in BOOLEAN
    /\ ref_file_len \in 0..MaxLines
    /\ hyp_file_len \in 0..MaxLines
    /\ pc = "loop"
    /\ ref = <<>> /\ hyp = <<>> /\ opcodes = <<>>
    /\ Defaults

\* One iteration of "for ref_line, hyp_line in izip(args.ref, args.hyp)".
ProcessPair ==
    /\ pc = "loop"
    /\ ref_pos < ref_file_len /\ hyp_pos < hyp_file_len
    /\ \E rl \in RefLines, hl \in HypLines :
       \E line \in { FailLine(files_have_ids, print_instances, rl, hl) } :
       \E r \in { IF line \in {68, 69, 70} THEN rl ELSE StripRef(files_have_ids, rl) } :
       \E h \in { IF line \in {68, 69, 70} THEN hl ELSE StripHyp(files_have_ids, hl) } :
       \E m \in { SequenceMatcher(r, h) } :
       \E ops \in { get_opcodes(m) } :
       \E e \in { get_error_count(ops) } :
       \E mt \in { get_match_count(m) } :
         LET aligned == line \notin {68, 69, 70}
             counted == aligned /\ line # 154
             tabs    == IF counted /\ confusions
                        THEN track_confusions(ops, r, h,
                                 [ins |-> insertion_table, del |-> deletion_table,
                                  sub |-> substitution_table])
                        ELSE [ins |-> insertion_table, del |-> deletion_table,
                              sub |-> substitution_table]
         IN  /\ ref_pos' = ref_pos + 1
             /\ hyp_pos' = hyp_pos + 1
             /\ ref_line' = rl /\ hyp_line' = hl
             /\ ref' = r /\ hyp' = h
             /\ id' = IF files_have_ids /\ aligned THEN Last(rl) ELSE None
             /\ sm' = IF aligned THEN m ELSE sm
             /\ opcodes' = IF aligned THEN ops ELSE opcodes
             /\ errors' = IF aligned THEN e ELSE errors
             /\ matches' = IF counted THEN mt ELSE matches
             /\ hist' = IF aligned THEN Append(hist, [ref |-> r, hyp |-> h]) ELSE hist
             /\ error_count' = IF counted THEN AddTo(error_count, e) ELSE error_count
             /\ match_count' = IF counted THEN AddTo(match_count, mt) ELSE match_count
             /\ ref_token_count' = IF counted THEN AddTo(ref_token_count, Len(r))
                                   ELSE ref_token_count
             /\ insertion_table' = tabs.ins
             /\ deletion_table' = tabs.del
             /\ substitution_table' = tabs.sub
             /\ diff_out' = IF counted /\ print_instances THEN print_diff(ops, r, h)
                            ELSE diff_out
             /\ lengths' = IF line \in {0, 100, 101} THEN Append(lengths, Len(r))
                           ELSE lengths
             /\ error_rates' = IF line \in {0, 101}
                               THEN Append(error_rates, Rate(e, Len(r)))
                               ELSE error_rates
             /\ wer_bins' = IF line = 0 THEN BinAppend(wer_bins, Len(r), Rate(e, Len(r)))
                            ELSE wer_bins
             /\ counter' = IF line = 0 THEN counter + 1 ELSE counter
             /\ fail_line' = line
             /\ err' = ErrorOf(line)
             /\ pc' = IF line = 0 THEN "loop" ELSE "aborted"
    /\ UNCHANGED << files_have_ids, confusions, print_instances, ref_file_len,
                    hyp_file_len, report >>

\* izip stops: args.ref has no line left, or it gave one and args.hyp has none.
LoopExit ==
    /\ pc = "loop"
    /\ ref_pos = ref_file_len \/ hyp_pos = hyp_file_len
    /\ ref_pos' = IF ref_pos < ref_file_len THEN ref_pos + 1 ELSE ref_pos
    /\ pc' = "report"
    /\ UNCHANGED << files_have_ids, confusions, print_instances, ref_file_len,
                    hyp_file_len, hyp_pos, err, fail_line, counter,
                    ref_token_count, error_count, match_count, lengths,
                    error_rates, wer_bins, insertion_table, deletion_table,
                    substitution_table, ref_line, hyp_line, ref, hyp, id, sm,
                    opcodes, errors, matches, diff_out, report, hist >>

\* print_wer_vs_length(): avg_wers = map(mean, wer_bins)
print_wer_vs_length(bins) == [k \in 1..Len(bins) |-> mean(bins[k])]

\* The lines after the loop: the tables are printed, not changed, by
\* print_confusions; then the mean of each bin; then WRR and WER.
Report ==
    /\ pc = "report"
    /\ IF ref_token_count = 0
       THEN /\ report' = [avg_wers |-> print_wer_vs_length(wer_bins)]
            /\ fail_line' = 106
            /\ err' = ErrorOf(106)
            /\ pc' = "aborted"
       ELSE /\ report' = [avg_wers |-> print_wer_vs_length(wer_bins),
                          WRR |-> Rate(Hundred * match_count, ref_token_count),
                          WER |-> Rate(Hundred * error_count, ref_token_count)]
            /\ UNCHANGED << fail_line, err >>
            /\ pc' = "done"
    /\ UNCHANGED << files_have_ids, confusions, print_instances, ref_file_len,
                    hyp_file_len, ref_pos, hyp_pos, counter, ref_token_count,
                    error_count, match_count, lengths, error_rates, wer_bins,
                    insertion_table, deletion_table, substitution_table,
                    ref_line, hyp_line, ref, hyp, id, sm, opcodes, errors,
                    matches, diff_out, hist >>

Next == ProcessPair \/ LoopExit \/ Report

Spec == Init /\ [][Next]_vars

----------------------------------------------------------------------------
(* One pair through the aligner and the classifier, for every pair of        *)
(* token sequences of at most MaxLen tokens.                                 *)

InitPair ==
    /\ files_have_ids = FALSE /\ confusions = FALSE /\ print_instances = FALSE
    /\ ref_file_len = 0 /\ hyp_file_len = 0
    /\ pc = "pair"
    /\ ref \in SeqsUpTo(Vocab, MaxLen)
    /\ hyp \in SeqsUpTo(Vocab, MaxLen)
    /\ opcodes = <<>>
    /\ Defaults

\* Lines 76-79 of main on ref and hyp.
AlignPair ==
    /\ pc = "pair"
    /\ sm' = SequenceMatcher(ref, hyp)
    /\ opcodes' = get_opcodes(sm')
    /\ errors' = get_error_count(opcodes')
    /\ matches' = get_match_count(sm')
    /\ pc' = "aligned"
    /\ UNCHANGED << files_have_ids, confusions, print_instances, ref_file_len,
                    hyp_file_len, ref_pos, hyp_pos, err, fail_line, counter,
                    ref_token_count, error_count, match_count, lengths,
                    error_rates, wer_bins, insertion_table, deletion_table,
                    substitution_table, ref_line, hyp_line, ref, hyp, id,
                    diff_out, report, hist >>

SpecPair == InitPair /\ [][AlignPair]_vars

----------------------------------------------------------------------------
(* print_diff on every opcode sequence that partitions two token sequences  *)
(* of at most MaxDiffLen tokens.                                             *)

\* The opcodes that can start at (i, j): non-empty, of one kind, an equal
\* opcode only over pairwise equal tokens.
OpcodesAt(a, b, i, j) ==
    { [tag |-> "equal", i1 |-> i, i2 |-> i + k, j1 |-> j, j2 |-> j + k] :
        k \in { n \in 1..Min2(Len(a) - i, Len(b) - j) :
                  \A d \in 1..n : a[i + d] = b[j + d] } }
    \cup { [tag |-> "insert", i1 |-> i, i2 |-> i, j1 |-> j, j2 |-> j2] :
             j2 \in (j + 1)..Len(b) }
    \cup { [tag |-> "delete", i1 |-> i, i2 |-> i2, j1 |-> j, j2 |-> j] :
             i2 \in (i + 1)..Len(a) }
    \cup { [tag |-> "replace", i1 |-> i, i2 |-> i2, j1 |-> j, j2 |-> j2] :
             i2 \in (i + 1)..Len(a), j2 \in (j + 1)..Len(b) }

RECURSIVE OpcodeSeqs(_, _, _, _)
OpcodeSeqs(a, b, i, j) ==
    IF i = Len(a) /\ j = Len(b) THEN { <<>> }
    ELSE UNION { { << o >> \o rest : rest \in OpcodeSeqs(a, b, o.i2, o.j2) } :
                   o \in OpcodesAt(a, b, i, j) }

InitDiff ==
    /\ files_have_ids = FALSE /\ confusions = FALSE /\ print_instances = TRUE
    /\ ref_file_len = 0 /\ hyp_file_len = 0
    /\ pc = "opcodes"
    /\ ref \in SeqsUpTo(Vocab, MaxDiffLen)
    /\ hyp \in SeqsUpTo(Vocab, MaxDiffLen)
    /\ opcodes \in OpcodeSeqs(ref, hyp, 0, 0)
    /\ Defaults

\* print_diff(sm, ref, hyp) where sm.get_opcodes() is opcodes.
RenderOpcodes ==
    /\ pc = "opcodes"
    /\ diff_out' = print_diff(opcodes, ref, hyp)
    /\ pc' = "rendered"
    /\ UNCHANGED << files_have_ids, confusions, print_instances, ref_file_len,
                    hyp_file_len, ref_pos, hyp_pos, err, fail_line, counter,
                    ref_token_count, error_count, match_count, lengths,
                    error_rates, wer_bins, insertion_table, deletion_table,
                    substitution_table, ref_line, hyp_line, ref, hyp, id, sm,
                    opcodes, errors, matches, report, hist >>

SpecDiff == InitDiff /\ [][RenderOpcodes]_vars

----------------------------------------------------------------------------
(* C1 *)

\* The classical unit-cost edit distance, by its recursive definition.
RECURSIVE Levenshtein(_, _)
Levenshtein(a, b) ==
    IF a = <<>> THEN Len(b)
    ELSE IF b = <<>> THEN Len(a)
    ELSE IF Head(a) = Head(b) THEN Levenshtein(Tail(a), Tail(b))
    ELSE 1 + Min3(Levenshtein(Tail(a), b), Levenshtein(a, Tail(b)),
                  Levenshtein(Tail(a), Tail(b)))

\* C1: the error count get_error_count computes on the alignment of ref and
\* hyp (the sum of max(i2-i1, j2-j1) over the insert, delete and replace
\* opcodes) is the Levenshtein distance between ref and hyp.
C1_ErrorCountIsEditDistance ==
    pc = "aligned" => errors = Levenshtein(ref, hyp)

\* An aligned pair whose alignment holds a replace and an insert run.
C1_Witness ==
    /\ pc = "aligned"
    /\ errors >= 2
    /\ \E k \in 1..Len(opcodes) : opcodes[k].tag = "replace"
    /\ \E k \in 1..Len(opcodes) : opcodes[k].tag = "insert"
    /\ \E k \in 1..Len(opcodes) : opcodes[k].tag = "equal"

----------------------------------------------------------------------------
(* C2 *)

WellFormedOpcode(o, a, b) ==
    /\ 0 <= o.i1 /\ o.i1 <= o.i2 /\ o.i2 <= Len(a)
    /\ 0 <= o.j1 /\ o.j1 <= o.j2 /\ o.j2 <= Len(b)
    /\ CASE o.tag = "equal"   -> /\ o.i2 - o.i1 = o.j2 - o.j1
                                 /\ \A d \in 1..(o.i2 - o.i1) : a[o.i1 + d] = b[o.j1 + d]
         [] o.tag = "insert"  -> o.i2 = o.i1
         [] o.tag = "delete"  -> o.j2 = o.j1
         [] o.tag = "replace" -> o.i2 > o.i1 /\ o.j2 > o.j1
         [] OTHER             -> FALSE

Partitions(ops, a, b) ==
    /\ ops = <<>> => (Len(a) = 0 /\ Len(b) = 0)
    /\ ops # <<>> => /\ ops[1].i1 = 0 /\ ops[1].j1 = 0
                     /\ ops[Len(ops)].i2 = Len(a) /\ ops[Len(ops)].j2 = Len(b)
    /\ \A k \in 2..Len(ops) : ops[k].i1 = ops[k - 1].i2 /\ ops[k].j1 = ops[k - 1].j2
    /\ \A k \in 1..Len(ops) : WellFormedOpcode(ops[k], a, b)

\* C2: the opcodes of the alignment of ref and hyp partition the two index
\* ranges in order, from (0, 0) to (len(ref), len(hyp)) with no gap, and
\* each opcode satisfies the span constraint of its kind.
C2_OpcodesPartition ==
    pc = "aligned" => Partitions(opcodes, ref, hyp)

\* An alignment of sequences of different lengths with three opcodes or more.
C2_Witness ==
    /\ pc = "aligned"
    /\ Len(opcodes) >= 3
    /\ Len(ref) # Len(hyp)
    /\ \E k \in 1..Len(opcodes) : opcodes[k].tag = "delete"

----------------------------------------------------------------------------
(* C5 *)

SameWidths(s, t) ==
    /\ Len(s) = Len(t)
    /\ \A k \in 1..Len(s) : Len(s[k]) = Len(t[k])

Padded(tokens) ==
    \E k \in 1..Len(tokens) : \E c \in 1..Len(tokens[k]) : tokens[k][c] = " "

\* C5 as stated: the REF and HYP lines, each split on single spaces, give
\* the same number of tokens, of equal length position by position.
C5_SplitLinesAlign ==
    pc = "rendered" =>
        SameWidths(SplitSpace(diff_out.ref_line), SplitSpace(diff_out.hyp_line))

\* C5 amended: the two slot lists have the same number of slots, of equal
\* width slot by slot, so the joined lines have the same length; split on
\* single spaces the lines align when no slot was padded with spaces.
C5_SlotsAlign ==
    pc = "rendered" =>
        /\ SameWidths(diff_out.ref_tokens, diff_out.hyp_tokens)
        /\ Len(diff_out.ref_line) = Len(diff_out.hyp_line)
        /\ (~Padded(diff_out.ref_tokens) /\ ~Padded(diff_out.hyp_tokens))
              => SameWidths(SplitSpace(diff_out.ref_line),
                            SplitSpace(diff_out.hyp_line))

\* A rendered replace run of two reference tokens for one hypothesis token,
\* with one slot padded with spaces and one filled with asterisks.
C5_Witness ==
    /\ pc = "rendered"
    /\ \E k \in 1..Len(opcodes) :
         /\ opcodes[k].tag = "replace"
         /\ opcodes[k].i2 - opcodes[k].i1 = 2
         /\ opcodes[k].j2 - opcodes[k].j1 = 1
    /\ Padded(diff_out.hyp_tokens)
    /\ \E k \in 1..Len(diff_out.hyp_tokens) : diff_out.hyp_tokens[k][1] = "*"

----------------------------------------------------------------------------
(* Steps of the corpus loop, as the claims about main speak of them *)

\* This step read a pair of lines.
ReadsPair == pc = "loop" /\ hyp_pos' = hyp_pos + 1

\* This step gave a pair to the aligner (line 76 was reached).
AlignsPair == Len(hist') = Len(hist) + 1

Count(table, key) == IF key \in DOMAIN table THEN table[key] ELSE 0

RECURSIVE SumOver(_, _)
SumOver(f, S) ==
    IF S = {} THEN 0
    ELSE LET k == CHOOSE x \in S : TRUE IN f[k] + SumOver(f, S \ {k})

TableTotal(table) == SumOver(table, DOMAIN table)

\* Never decremented, no key removed.
Grows(table, table2) ==
    \A k \in DOMAIN table : k \in DOMAIN table2 /\ table2[k] >= table[k]

Occurrences(s, w) == Cardinality({ k \in 1..Len(s) : s[k] = w })

TokensOf(s) == { s[k] : k \in 1..Len(s) }

----------------------------------------------------------------------------
(* C3 *)

PairErrors(p) == get_error_count(get_opcodes(SequenceMatcher(p.ref, p.hyp)))

PairMatches(p) == get_match_count(SequenceMatcher(p.ref, p.hyp))

SumErrors == SumSeq([k \in 1..Len(hist) |-> PairErrors(hist[k])])

SumMatches == SumSeq([k \in 1..Len(hist) |-> PairMatches(hist[k])])

SumRefTokens == SumSeq([k \in 1..Len(hist) |-> Len(hist[k].ref)])

C3_Sums ==
    /\ ref_token_count = SumRefTokens
    /\ error_count = SumErrors
    /\ match_count = SumMatches
    /\ pc = "done" =>
         /\ report.WER = << Hundred * SumErrors, SumRefTokens >>
         /\ report.WRR = << Hundred * SumMatches, SumRefTokens >>

C3_Monotone ==
    /\ ref_token_count' >= ref_token_count
    /\ error_count' >= error_count
    /\ match_count' >= match_count

\* C3: after any number of pairs the three running totals are the sums of
\* the pairs' reference lengths, error counts and match counts, no total
\* ever decreases, and the final WER and WRR are 100 * total / total
\* reference tokens.
C3_RunningTotals == []C3_Sums /\ [][C3_Monotone]_vars

\* A finished run of two pairs with errors and matches, whose WER differs
\* from 100 times the mean of the two per-sentence rates.
C3_Witness ==
    /\ pc = "done"
    /\ Len(hist) = 2
    /\ error_count > 0 /\ match_count > 0
    /\ PairErrors(hist[1]) > 0 /\ PairErrors(hist[2]) > 0
    /\ report.WER[1] * mean(error_rates)[2]
         # Hundred * mean(error_rates)[1] * report.WER[2]

----------------------------------------------------------------------------
(* C4 *)

\* The (w1, w2) pairs of the cross products of the replace opcodes.
SubstitutionsExpected(ops, seq1, seq2, w1, w2) ==
    SumSeq([k \in 1..Len(ops) |->
              IF ops[k].tag = "replace"
              THEN Occurrences(Slice(seq1, ops[k].i1, ops[k].i2), w1)
                     * Occurrences(Slice(seq2, ops[k].j1, ops[k].j2), w2)
              ELSE 0])

InsertionsExpected(ops, seq2, w) ==
    SumSeq([k \in 1..Len(ops) |->
              IF ops[k].tag = "insert"
              THEN Occurrences(Slice(seq2, ops[k].j1, ops[k].j2), w) ELSE 0])

DeletionsExpected(ops, seq1, w) ==
    SumSeq([k \in 1..Len(ops) |->
              IF ops[k].tag = "delete"
              THEN Occurrences(Slice(seq1, ops[k].i1, ops[k].i2), w) ELSE 0])

SpanProducts(ops) ==
    SumSeq([k \in 1..Len(ops) |->
              IF ops[k].tag = "replace"
              THEN (ops[k].i2 - ops[k].i1) * (ops[k].j2 - ops[k].j1) ELSE 0])

C4_Step ==
    /\ Grows(insertion_table, insertion_table')
    /\ Grows(deletion_table, deletion_table')
    /\ Grows(substitution_table, substitution_table')
    /\ (AlignsPair /\ confusions) =>
         /\ \A w1 \in TokensOf(ref'), w2 \in TokensOf(hyp') :
              Count(substitution_table', << w1, w2 >>)
                = Count(substitution_table, << w1, w2 >>)
                    + SubstitutionsExpected(opcodes', ref', hyp', w1, w2)
         /\ TableTotal(substitution_table')
              = TableTotal(substitution_table) + SpanProducts(opcodes')
         /\ \A w \in TokensOf(hyp') :
              Count(insertion_table', w)
                = Count(insertion_table, w) + InsertionsExpected(opcodes', hyp', w)
         /\ \A w \in TokensOf(ref') :
              Count(deletion_table', w)
                = Count(deletion_table, w) + DeletionsExpected(opcodes', ref', w)

\* C4: a call of track_confusions adds one to substitution_table[(w1, w2)]
\* for every pair of the cross product of each replace opcode's spans (the
\* table's total grows by the product of the span lengths), one to
\* insertion_table per inserted hypothesis token, one to deletion_table per
\* deleted reference token; no entry of a table decreases or disappears.
C4_ConfusionTables == [][C4_Step]_vars

\* A replace of two tokens by two others has been tallied as four pairs,
\* and an insertion has been tallied.
C4_Witness ==
    /\ confusions
    /\ Cardinality(DOMAIN substitution_table) >= 4
    /\ Count(substitution_table, << ta, tA >>) = 1
    /\ Count(substitution_table, << ta, tc >>) >= 1
    /\ Count(substitution_table, << tBb, tA >>) = 1
    /\ Count(substitution_table, << tBb, tc >>) = 1
    /\ DOMAIN insertion_table # {}

----------------------------------------------------------------------------
(* C6 *)

\* C6: with identifiers enabled, a pair of lines whose last tokens differ
\* makes main fail the identifier assertion and abort, and leaves the
\* running totals, the confusion tables and the length-bucketed table as
\* they were.
C6_IdentifierMismatch ==
    [][ ( /\ ReadsPair
          /\ files_have_ids
          /\ ref_line' # <<>> /\ hyp_line' # <<>>
          /\ Last(ref_line') # Last(hyp_line') )
        => /\ pc' = "aborted"
           /\ err' = "AssertionError"
           /\ fail_line' = 70
           /\ UNCHANGED << ref_token_count, error_count, match_count,
                           insertion_table, deletion_table, substitution_table,
                           wer_bins, lengths, error_rates, counter >> ]_vars

\* The second pair's identifiers differ, after a first pair that counted.
C6_Witness ==
    /\ pc = "aborted" /\ fail_line = 70
    /\ files_have_ids
    /\ counter = 2
    /\ error_count > 0
    /\ Last(ref_line) # Last(hyp_line)

----------------------------------------------------------------------------
(* C7 *)

\* C7 as stated: every rate of the length-bucketed table lies in [0, 1].
C7_RateAtMostOne ==
    \A n \in 1..Len(wer_bins) : \A k \in 1..Len(wer_bins[n]) :
        0 <= wer_bins[n][k][1] /\ wer_bins[n][k][1] <= wer_bins[n][k][2]

\* The rate of the pair that completed last.
LastRate == wer_bins[Len(ref) + 1][Len(wer_bins[Len(ref) + 1])]

\* C7 amended: the rate appended for a pair is errors / len(ref) with
\* 0 <= errors <= max(len(ref), len(hyp)); it lies in [0, 1] when the
\* hypothesis is no longer than the reference.
C7_RateBounded ==
    (counter > 1 /\ fail_line = 0) =>
        /\ LastRate = << errors, Len(ref) >>
        /\ 0 <= errors
        /\ errors <= Max2(Len(ref), Len(hyp))
        /\ Len(hyp) <= Len(ref) => LastRate[1] <= LastRate[2]

\* A completed pair whose rate is above one, and so are its errors.
C7_Witness ==
    /\ counter > 1 /\ fail_line = 0
    /\ LastRate[1] > LastRate[2]
    /\ errors = Len(hyp)

----------------------------------------------------------------------------
(* C8 *)

\* C8, for runs without identifiers: when the loop is over, min(m, n)
\* pairs have completed and the loop raised no error, so the report step
\* was reached.
C8_AllPairsProcessed ==
    (pc # "loop" /\ ~files_have_ids) =>
        /\ counter - 1 = Min2(ref_file_len, hyp_file_len)
        /\ fail_line \in {0, 106}

----------------------------------------------------------------------------
(* C9 *)

\* C9: a pair with a non-empty reference of L tokens appends its rate to
\* the bucket of L and changes no other bucket, whatever L is.
C9_EveryLengthBucketed ==
    [][ (AlignsPair /\ Len(ref') > 0)
        => /\ BinExists(Len(ref'))
           /\ wer_bins' = BinAppend(wer_bins, Len(ref'), Rate(errors', Len(ref'))) ]_vars

----------------------------------------------------------------------------
(* C10 *)

\* C10: a pair whose reference has no token makes main abort with a
\* division by zero; nothing is appended to the length-bucketed table, and
\* the running totals have been incremented for the pair.
C10_EmptyReference ==
    [][ (AlignsPair /\ Len(ref') = 0)
        => /\ pc' = "aborted"
           /\ err' = "ZeroDivisionError"
           /\ wer_bins' = wer_bins
           /\ error_rates' = error_rates
           /\ errors' = Len(hyp')
           /\ error_count' = error_count + errors'
           /\ match_count' = match_count + matches'
           /\ ref_token_count' = ref_token_count ]_vars

\* The division at line 100 failed on a pair that had added to error_count.
C10_Witness ==
    /\ pc = "aborted" /\ err = "ZeroDivisionError" /\ fail_line = 100
    /\ ref = <<>>
    /\ errors > 0
    /\ error_count = errors
    /\ Len(lengths) = 1 /\ error_rates = <<>>

=============================================================================
